---- MODULE Spec2Model ----
(***************************************************************************)
(* A model of hyperion/grid/voronoi_grid.py: the VoronoiGrid quantity      *)
(* store, the VoronoiGridView projection with its aliasing of the parent's *)
(* arrays, the dimension check, and the HDF5 read/write contract.          *)
(*                                                                         *)
(* Python objects that can be shared (numpy arrays, lists) live in a heap  *)
(* of numbered objects, so that "same object" (is) and "equal value" (==)  *)
(* are different things, as they are in the program.                       *)
(*                                                                         *)
(* None is written <<>> for the tuple/sequence valued fields (shape, the   *)
(* bounding box, n_pop) and as a record flag for the neighbour table.      *)
(* External links (h5py.ExternalLink) are outside the model.               *)
(***************************************************************************)
EXTENDS Integers, Sequences, FiniteSets, TLC

VARIABLES g, h, heap, raw, file, engine, op, err

vars == <<g, h, heap, raw, file, engine, op, err>>

\* ---------------------------------------------------------------- bounds
MaxObj == 5        \* objects (arrays and lists) alive at once
MaxLen == 2        \* longest point set / caller array
MaxVal == 2        \* largest array element (add is not taken beyond it)
MaxPop == 2        \* longest population list grown by append

Names == {"p", "q"}
NameOrder == <<"p", "q">>

\* ------------------------------------------------------------------ heap
Free == [kind |-> "free", data |-> <<>>, items |-> <<>>]
Arr(d) == [kind |-> "array", data |-> d, items |-> <<>>]
Lst(it) == [kind |-> "list", data |-> <<>>, items |-> it]

Ids == 1..MaxObj
Range(s) == {s[i] : i \in DOMAIN s}
FreeIds(hp) == {i \in Ids : hp[i].kind = "free"}
NthFree(hp, n) == CHOOSE i \in FreeIds(hp) : Cardinality({j \in FreeIds(hp) : j < i}) = n - 1
Room(hp, n) == Cardinality(FreeIds(hp)) >= n

\* The value of an object: an array's elements, or a list's arrays' elements.
Val(hp, id) ==
    IF hp[id].kind = "list"
    THEN [kind |-> "list", data |-> <<>>,
          items |-> [i \in DOMAIN hp[id].items |-> hp[hp[id].items[i]].data]]
    ELSE [kind |-> "array", data |-> hp[id].data, items |-> <<>>]

NoneVal == [kind |-> "none", data |-> <<>>, items |-> <<>>]

\* A copy that is no copy: the object itself is handed back.
deepcopy_alias(hp, id) == [id |-> id, heap |-> hp]

\* copy.deepcopy of an array or of a list of arrays: new objects, equal values.
deepcopy(hp, id) ==
    IF hp[id].kind = "list"
    THEN LET n == Len(hp[id].items)
             new == [i \in 1..n |-> NthFree(hp, i + 1)]
         IN [id |-> NthFree(hp, 1),
             heap |-> [j \in Ids |->
                         IF j = NthFree(hp, 1) THEN Lst(new)
                         ELSE IF \E i \in 1..n : new[i] = j
                              THEN Arr(hp[hp[id].items[CHOOSE i \in 1..n : new[i] = j]].data)
                              ELSE hp[j]]]
    ELSE [id |-> NthFree(hp, 1),
          heap |-> [hp EXCEPT ![NthFree(hp, 1)] = Arr(hp[id].data)]]

CopySize(hp, id) == IF hp[id].kind = "list" THEN Len(hp[id].items) + 1 ELSE 1

\* ------------------------------------------------------------------ grid
NoTable == [isNone |-> TRUE, coordinates |-> <<>>, neighbours |-> ""]
NoQuantities == [n \in Names |-> 0]

\* VoronoiGrid.__init__ without arguments.
EmptyGrid == [shape |-> <<>>, bbox |-> <<>>, table |-> NoTable, quantities |-> NoQuantities]

Column(pts, k) == [i \in DOMAIN pts |-> pts[i][k]]
Min(s) == CHOOSE m \in Range(s) : \A e \in Range(s) : m <= e
Max(s) == CHOOSE m \in Range(s) : \A e \in Range(s) : m >= e

\* The tessellation engine: one record per point, in order, with the point's
\* coordinates; the neighbour column has the integer type the engine produced.
voronoi_grid(pts, dt) == [isNone |-> FALSE, coordinates |-> pts, neighbours |-> dt]

set_points(grid, pts, dt) ==
    [grid EXCEPT !.shape = <<Len(pts)>>,
                 !.bbox = <<Min(Column(pts, 1)), Max(Column(pts, 1)),
                            Min(Column(pts, 2)), Max(Column(pts, 2)),
                            Min(Column(pts, 3)), Max(Column(pts, 3))>>,
                 !.table = voronoi_grid(pts, dt)]

\* The x, y, z properties: None without a table, else a column of it.
x(table) == IF table.isNone THEN <<>> ELSE Column(table.coordinates, 1)
y(table) == IF table.isNone THEN <<>> ELSE Column(table.coordinates, 2)
z(table) == IF table.isNone THEN <<>> ELSE Column(table.coordinates, 3)

\* hashlib.md5 over the bytes of x, then y, then z: the digest stands for
\* the byte string it was computed from (no collisions).
get_geometry_id(table) == x(table) \o y(table) \o z(table)

\* grid_helpers.single_grid_dims(data, ndim=1): population count and shape.
single_grid_dims(data) ==
    IF data.kind = "list"
    THEN [err |-> IF \E i, j \in DOMAIN data.items : Len(data.items[i]) # Len(data.items[j])
                  THEN "ValueError" ELSE "ok",
          n_pop |-> <<Len(data.items)>>,
          shape |-> IF data.items = <<>> THEN <<>> ELSE <<Len(data.items[1])>>]
    ELSE [err |-> "ok", n_pop |-> <<>>, shape |-> <<Len(data.data)>>]

\* The values of a store, in iteration order.
StoreIds(quantities) ==
    LET present == {i \in DOMAIN NameOrder : quantities[NameOrder[i]] # 0}
        F[i \in 0..Len(NameOrder)] ==
            IF i = 0 THEN <<>>
            ELSE IF i \in present THEN Append(F[i - 1], quantities[NameOrder[i]])
                 ELSE F[i - 1]
    IN F[Len(NameOrder)]
StoreVals(hp, quantities) ==
    [i \in DOMAIN StoreIds(quantities) |-> Val(hp, StoreIds(quantities)[i])]

\* The loop of _check_array_dimensions from its i-th iteration on.
RECURSIVE CheckLoop(_, _, _, _, _)
CheckLoop(shape, qvals, array, i, n_pop_ref) ==
    IF i > Len(qvals) THEN "ok"
    ELSE LET d == IF array.kind = "none" THEN single_grid_dims(qvals[i])
                  ELSE single_grid_dims(array)
         IN IF d.err # "ok" THEN d.err
            ELSE IF d.shape # shape THEN "ValueError"
            ELSE IF d.n_pop # <<>> /\ n_pop_ref # <<>> /\ d.n_pop # n_pop_ref
                 THEN "ValueError"
            ELSE CheckLoop(shape, qvals, array, i + 1,
                           IF d.n_pop # <<>> /\ n_pop_ref = <<>> THEN d.n_pop ELSE n_pop_ref)

\* A check that compares shapes and never population counts.
check_shapes_only(shape, qvals, array) ==
    IF \E i \in DOMAIN qvals :
          LET d == IF array.kind = "none" THEN single_grid_dims(qvals[i])
                   ELSE single_grid_dims(array)
          IN d.err # "ok" \/ d.shape # shape
    THEN "ValueError" ELSE "ok"

\* _check_array_dimensions(self, array): "ok" or the exception raised.
\* qvals are the values of self.quantities; array is NoneVal for array=None.
\* (A view passed as array has been replaced by its viewed value.)
check_array_dimensions(shape, qvals, array) == CheckLoop(shape, qvals, array, 1, <<>>)

\* ------------------------------------------------------------------ view
NoView == [exists |-> FALSE, viewed_quantity |-> "", shape |-> <<>>,
           coordinates |-> <<>>, ref |-> 0]

\* VoronoiGridView.__init__(grid, quantity): set_points on the source's x, y, z
\* (None without a table: not a 1-D sequence), then the store narrowed to the
\* one entry, which is the source's object itself.
VoronoiGridView(table, quantities, quantity) ==
    IF table.isNone THEN [err |-> "ValueError", view |-> NoView]
    ELSE IF quantities[quantity] = 0 THEN [err |-> "KeyError", view |-> NoView]
    ELSE [err |-> "ok",
          view |-> [exists |-> TRUE, viewed_quantity |-> quantity,
                    shape |-> <<Len(table.coordinates)>>,
                    coordinates |-> table.coordinates,
                    ref |-> quantities[quantity]]]

\* VoronoiGrid.__getitem__
GridGetItem(grid, item) == VoronoiGridView(grid.table, grid.quantities, item)

\* A view seen as the grid it is: its table and its one-entry store.
ViewTable(view) == voronoi_grid(view.coordinates, "")
ViewQuantities(view) == [n \in Names |-> IF n = view.viewed_quantity THEN view.ref ELSE 0]

\* VoronoiGridView.__getitem__ with an int: a view of the item-th entry.
ViewGetItemInt(hp, view, item) ==
    IF item < Len(hp[view.ref].items)
    THEN [err |-> "ok", view |-> [view EXCEPT !.ref = hp[view.ref].items[item + 1]]]
    ELSE [err |-> "IndexError", view |-> NoView]

\* VoronoiGridView.__getitem__ with a name: VoronoiGrid.__getitem__ on the view.
ViewGetItemName(view, item) == VoronoiGridView(ViewTable(view), ViewQuantities(view), item)

\* What append and add are given: a caller's array or a view.
RawArg(id) == [kind |-> "raw", ref |-> id]
ViewArg(view) == [kind |-> "view", ref |-> view.ref]

\* VoronoiGridView.append
append(hp, view, grid) ==
    IF grid.kind = "view" /\ view.ref = grid.ref
    THEN [err |-> "Exception", heap |-> hp]
    ELSE IF grid.kind = "view" /\ hp[grid.ref].kind = "list"
    THEN [err |-> "Exception", heap |-> hp]
    ELSE IF check_array_dimensions(view.shape, <<Val(hp, view.ref)>>, Val(hp, grid.ref)) # "ok"
    THEN [err |-> "ValueError", heap |-> hp]
    ELSE IF hp[view.ref].kind # "list"
    THEN [err |-> "AttributeError", heap |-> hp]
    ELSE LET c == deepcopy(hp, grid.ref)
         IN [err |-> "ok",
             heap |-> [c.heap EXCEPT ![view.ref] = Lst(Append(hp[view.ref].items, c.id))]]

\* numpy's a += b on 1-D arrays: elementwise, a one-element b is broadcast,
\* any other pair of lengths is refused.
IAdd(a, b) ==
    IF Len(a) = Len(b) THEN [err |-> "ok", data |-> [i \in DOMAIN a |-> a[i] + b[i]]]
    ELSE IF Len(b) = 1 THEN [err |-> "ok", data |-> [i \in DOMAIN a |-> a[i] + b[1]]]
    ELSE [err |-> "ValueError", data |-> a]

\* An add that computes the sum and leaves it in no stored array (a = a + b
\* on the view's own entry instead of a += b).
add_rebinding(hp, view, grid) ==
    IF hp[view.ref].kind = "list"
    THEN [err |-> "Exception", heap |-> hp]
    ELSE IF grid.kind = "view" /\ hp[grid.ref].kind = "list"
    THEN [err |-> "Exception", heap |-> hp]
    ELSE IF check_array_dimensions(view.shape, <<Val(hp, view.ref)>>, Val(hp, grid.ref)) # "ok"
    THEN [err |-> "ValueError", heap |-> hp]
    ELSE [err |-> IAdd(hp[view.ref].data, hp[grid.ref].data).err, heap |-> hp]

\* VoronoiGridView.add
add(hp, view, grid) ==
    IF hp[view.ref].kind = "list"
    THEN [err |-> "Exception", heap |-> hp]
    ELSE IF grid.kind = "view" /\ hp[grid.ref].kind = "list"
    THEN [err |-> "Exception", heap |-> hp]
    ELSE IF check_array_dimensions(view.shape, <<Val(hp, view.ref)>>, Val(hp, grid.ref)) # "ok"
    THEN [err |-> "ValueError", heap |-> hp]
    ELSE LET r == IAdd(hp[view.ref].data, hp[grid.ref].data)
         IN [err |-> r.err, heap |-> [hp EXCEPT ![view.ref] = Arr(r.data)]]

\* ------------------------------------------------------- quantity store
\* self.refined: no such attribute is ever set on a VoronoiGrid, and
\* __getattr__ hands every name but n_dust to the default lookup.
refined(grid) == [err |-> "AttributeError", value |-> <<>>]

\* VoronoiGrid.__setitem__ with a view as value.
setitem_view(hp, grid, item, value, dt) ==
    IF refined(grid).err # "ok"
    THEN [err |-> refined(grid).err, grid |-> grid, heap |-> hp]
    ELSE LET c == deepcopy(hp, value.ref)
             g1 == IF refined(grid).value = <<>>
                   THEN set_points(grid, value.coordinates, dt) ELSE grid
         IN [err |-> "ok", grid |-> [g1 EXCEPT !.quantities[item] = c.id], heap |-> c.heap]

\* VoronoiGrid.__setitem__ with [] as value: a new empty list.
setitem_empty(hp, grid, item) ==
    [err |-> "ok", grid |-> [grid EXCEPT !.quantities[item] = NthFree(hp, 1)],
     heap |-> [hp EXCEPT ![NthFree(hp, 1)] = Lst(<<>>)]]

\* VoronoiGrid.reset_quantities
reset_quantities(grid) == [grid EXCEPT !.quantities = NoQuantities]

\* A dataset of a file is absent (NoneVal), 1-D (its elements) or 2-D (its
\* rows).  h5py's create_dataset(data=...) on a list of arrays makes the 2-D
\* array of them, on an empty list the empty 1-D array; the values are
\* stored as floats, which changes no number of the model.
Dataset1(data) == [kind |-> "1d", data |-> data, items |-> <<>>]
Dataset2(rows) == [kind |-> "2d", data |-> <<>>, items |-> rows]
ToDataset(val) ==
    IF val.kind = "list" /\ val.items # <<>> THEN Dataset2(val.items)
    ELSE Dataset1(val.data)

\* The loop of read_quantities over the group's datasets from the i-th name
\* on: a 2-D dataset becomes a list of its rows, a 1-D one an array.
RECURSIVE ReadLoop(_, _, _, _, _)
ReadLoop(hp, quantities, group, selector, i) ==
    IF i > Len(NameOrder) THEN [heap |-> hp, quantities |-> quantities]
    ELSE LET n == NameOrder[i]
             d == group[n]
         IN IF d.kind = "none" \/ n \notin selector
            THEN ReadLoop(hp, quantities, group, selector, i + 1)
            ELSE IF d.kind = "2d"
            THEN LET k == Len(d.items)
                     new == [j \in 1..k |-> NthFree(hp, j + 1)]
                     hp1 == [o \in Ids |->
                               IF o = NthFree(hp, 1) THEN Lst(new)
                               ELSE IF \E j \in 1..k : new[j] = o
                                    THEN Arr(d.items[CHOOSE j \in 1..k : new[j] = o])
                                    ELSE hp[o]]
                 IN ReadLoop(hp1, [quantities EXCEPT ![n] = NthFree(hp, 1)],
                             group, selector, i + 1)
            ELSE ReadLoop([hp EXCEPT ![NthFree(hp, 1)] = Arr(d.data)],
                          [quantities EXCEPT ![n] = NthFree(hp, 1)],
                          group, selector, i + 1)

\* VoronoiGrid.read_quantities: the store is updated entry by entry, then
\* checked; a failed check leaves the entries that were read.
read_quantities(hp, grid, group, selector) ==
    LET r == ReadLoop(hp, grid.quantities, group, selector, 1)
        g1 == [grid EXCEPT !.quantities = r.quantities]
    IN [err |-> check_array_dimensions(g1.shape, StoreVals(r.heap, g1.quantities), NoneVal),
        grid |-> g1, heap |-> r.heap]

\* ----------------------------------------------------------- persistence
\* A container: the attributes of its Geometry group (absent: "" and <<>>),
\* the cells dataset with the names of its columns, and the datasets of its
\* Quantities group, each with its geometry attribute.
NoCells == [exists |-> FALSE, columns |-> {}, coordinates |-> <<>>, neighbours |-> ""]
NoFile == [grid_type |-> "", geometry |-> <<>>, bbox |-> <<>>, cells |-> NoCells,
           quantities |-> [n \in Names |-> NoneVal],
           tags |-> [n \in Names |-> <<>>]]

\* The columns of the neighbour table once set_points has split its bounding
\* box column.
TableColumns == {"coordinates", "neighbours", "bmin", "bmax"}

\* The loop of write over the store from the i-th name on; h5py refuses to
\* create a dataset under a name the group already has.
RECURSIVE WriteLoop(_, _, _, _, _)
WriteLoop(hp, grid, f, selector, i) ==
    IF i > Len(NameOrder) THEN [err |-> "ok", file |-> f]
    ELSE LET n == NameOrder[i]
         IN IF grid.quantities[n] = 0 \/ n \notin selector
            THEN WriteLoop(hp, grid, f, selector, i + 1)
            ELSE IF f.quantities[n].kind # "none"
            THEN [err |-> "RuntimeError", file |-> f]
            ELSE WriteLoop(hp, grid,
                           [f EXCEPT !.quantities[n] = ToDataset(Val(hp, grid.quantities[n])),
                                     !.tags[n] = get_geometry_id(grid.table)],
                           selector, i + 1)

\* VoronoiGrid.write, statement by statement: what is in the container when
\* an exception leaves the method stays there.
write(hp, grid, f, selector) ==
    LET f1 == [f EXCEPT !.grid_type = "vor"]
        f2 == [f1 EXCEPT !.geometry = get_geometry_id(grid.table), !.bbox = grid.bbox]
        f3 == [f2 EXCEPT !.cells = [exists |-> TRUE, columns |-> TableColumns,
                                    coordinates |-> grid.table.coordinates,
                                    neighbours |-> grid.table.neighbours]]
    IN IF grid.table.isNone THEN [err |-> "AttributeError", file |-> f1]
       ELSE IF grid.table.neighbours # "int32" THEN [err |-> "TypeError", file |-> f2]
       ELSE IF f2.cells.exists THEN [err |-> "RuntimeError", file |-> f2]
       ELSE IF check_array_dimensions(grid.shape, StoreVals(hp, grid.quantities), NoneVal) # "ok"
       THEN [err |-> "ValueError", file |-> f3]
       ELSE WriteLoop(hp, grid, f3, selector, 1)

\* VoronoiGrid.write_single_array into the Quantities group of f
write_single_array(hp, grid, f, name, array) ==
    LET f1 == [f EXCEPT !.quantities[name] = ToDataset(array)]
    IN IF check_array_dimensions(grid.shape, StoreVals(hp, grid.quantities), array) # "ok"
       THEN [err |-> "ValueError", file |-> f]
       ELSE IF f.quantities[name].kind # "none" THEN [err |-> "RuntimeError", file |-> f]
       ELSE IF grid.table.isNone THEN [err |-> "AttributeError", file |-> f1]
       ELSE [err |-> "ok", file |-> [f1 EXCEPT !.tags[name] = get_geometry_id(grid.table)]]

\* VoronoiGrid.read_geometry: the tag, then set_points on the columns x, y
\* and z of the cells dataset, then the hash.
read_geometry(grid, f, dt) ==
    IF f.grid_type = "" THEN [err |-> "KeyError", grid |-> grid]
    ELSE IF f.grid_type # "vor" THEN [err |-> "ValueError", grid |-> grid]
    ELSE IF ~f.cells.exists THEN [err |-> "KeyError", grid |-> grid]
    ELSE IF ~({"x", "y", "z"} \subseteq f.cells.columns) THEN [err |-> "ValueError", grid |-> grid]
    ELSE LET g1 == set_points(grid, f.cells.coordinates, dt)
         IN IF f.geometry = <<>> THEN [err |-> "KeyError", grid |-> g1]
            ELSE IF f.geometry # get_geometry_id(g1.table)
            THEN [err |-> "Exception", grid |-> g1]
            ELSE [err |-> "ok", grid |-> g1]

\* VoronoiGrid.read
read(hp, grid, f, selector, dt) ==
    LET r1 == read_geometry(grid, f, dt)
        r2 == read_quantities(hp, r1.grid, f.quantities, selector)
    IN IF r1.err # "ok" THEN [err |-> r1.err, grid |-> r1.grid, heap |-> hp]
       ELSE IF r2.err # "ok" THEN r2
       ELSE [err |-> check_array_dimensions(r2.grid.shape, StoreVals(r2.heap, r2.grid.quantities), NoneVal),
             grid |-> r2.grid, heap |-> r2.heap]

\* ---------------------------------------------------------------- inputs
NeighbourTypes == {"int32", "int64"}
PointSets == {[i \in 1..n |-> <<i - 1, 0, (i - 1) % 2>>] : n \in 1..MaxLen}
Ones(n) == [i \in 1..n |-> 1]
RawData == {Ones(n) : n \in 1..MaxLen}
Datasets ==
    {NoneVal} \cup {Dataset1(Ones(n)) : n \in 1..MaxLen}
    \cup {Dataset2([j \in 1..k |-> Ones(n)]) : n \in 1..MaxLen, k \in 1..MaxPop}
RowLen(d) == IF d.kind = "2d" THEN Len(d.items[1]) ELSE Len(d.data)
Groups == {grp \in [Names -> Datasets] :
             \E n \in 1..MaxLen : \A m \in Names : grp[m].kind = "none" \/ RowLen(grp[m]) = n}
Selectors == {Names, {"p"}}
GroupSize(group, selector) ==
    LET size(d) == IF d.kind = "none" THEN 0
                   ELSE IF d.kind = "2d" THEN Len(d.items) + 1 ELSE 1
        F[i \in 0..Len(NameOrder)] ==
            IF i = 0 THEN 0
            ELSE F[i - 1] + (IF NameOrder[i] \in selector THEN size(group[NameOrder[i]]) ELSE 0)
    IN F[Len(NameOrder)]


\* The expressions of a caller: its own array A, g[name] and g[name][idx].
\* A view lives for the one expression it is made in.
Expr(kind, name, idx) == [kind |-> kind, name |-> name, idx |-> idx]
ViewExprs ==
    {Expr("grid", n, 0) : n \in Names}
    \cup {Expr("item", n, i) : n \in Names, i \in 0..(MaxPop - 1)}
Exprs == {Expr("raw", "", 0)} \cup ViewExprs

\* g[name][idx] is taken on population lists only (on a single array it is
\* a caller error with no defined result).
Defined(hp, grid, e) ==
    (e.kind = "item" /\ GridGetItem(grid, e.name).err = "ok")
        => hp[grid.quantities[e.name]].kind = "list"

\* The view such an expression makes, or the exception.
EvalView(hp, grid, e) ==
    LET r == GridGetItem(grid, e.name)
    IN IF e.kind = "grid" \/ r.err # "ok" THEN r ELSE ViewGetItemInt(hp, r.view, e.idx)

\* Whether the expression makes a view.
IsView(hp, grid, e) == Defined(hp, grid, e) /\ EvalView(hp, grid, e).err = "ok"

\* The argument such an expression passes, and whether it evaluates at all.
Eval(hp, grid, rawid, e) ==
    IF e.kind = "raw" THEN [ok |-> rawid # 0, arg |-> RawArg(rawid)]
    ELSE [ok |-> IsView(hp, grid, e), arg |-> ViewArg(EvalView(hp, grid, e).view)]

\* ------------------------------------------------------- object numbering
\* Objects are numbered in the order a walk from g, h and A meets them,
\* and those it does not meet are dropped: the number of an object carries
\* no information, and what is reachable from nowhere is gone.
RootSeq(gg, hh, rr) ==
    [i \in DOMAIN NameOrder |-> gg.quantities[NameOrder[i]]]
    \o [i \in DOMAIN NameOrder |-> hh.quantities[NameOrder[i]]]
    \o <<rr>>

RECURSIVE Walk(_, _, _)
Walk(hp, seen, todo) ==
    IF todo = <<>> THEN seen
    ELSE IF Head(todo) = 0 \/ Head(todo) \in Range(seen) THEN Walk(hp, seen, Tail(todo))
    ELSE Walk(hp, Append(seen, Head(todo)), hp[Head(todo)].items \o Tail(todo))

Renumber(gg, hh, hp, rr) ==
    LET order == Walk(hp, <<>>, RootSeq(gg, hh, rr))
        new(id) == IF id = 0 THEN 0 ELSE CHOOSE i \in DOMAIN order : order[i] = id
        obj(o) == [o EXCEPT !.items = [i \in DOMAIN o.items |-> new(o.items[i])]]
    IN [g |-> [gg EXCEPT !.quantities = [n \in Names |-> new(gg.quantities[n])]],
        h |-> [hh EXCEPT !.quantities = [n \in Names |-> new(hh.quantities[n])]],
        heap |-> [i \in Ids |-> IF i <= Len(order) THEN obj(hp[order[i]]) ELSE Free],
        raw |-> new(rr)]

\* The state after a call.
Becomes(gg, hh, hp, rr) ==
    LET n == Renumber(gg, hh, hp, rr)
    IN g' = n.g /\ h' = n.h /\ heap' = n.heap /\ raw' = n.raw

Init ==
    /\ g = EmptyGrid
    /\ h = EmptyGrid
    /\ heap = [i \in Ids |-> Free]
    /\ raw = 0
    /\ file = NoFile
    /\ engine = "int32"
    /\ op = "init"
    /\ err = "ok"

\* --------------------------------------------------------------- actions
\* Each action is one call by the caller; op is the name of the call and err
\* the exception it raised ("ok" for none).  A call that raises leaves what
\* it had changed before raising.

\* g.set_points(x, y, z), once in the life of the grid
SetPointsCall(pts) ==
    /\ g.table.isNone
    /\ g' = set_points(g, pts, engine)
    /\ op' = "set_points"
    /\ err' = "ok"
    /\ UNCHANGED <<h, heap, raw, file, engine>>
SetPoints == \E pts \in PointSets : SetPointsCall(pts)

\* g[name] = []
SetItemEmptyCall(name) ==
    /\ Room(heap, 1)
    /\ LET r == setitem_empty(heap, g, name)
       IN Becomes(r.grid, h, r.heap, raw) /\ err' = r.err
    /\ op' = "setitem_empty"
    /\ UNCHANGED <<file, engine>>
SetItemEmpty == \E name \in Names : SetItemEmptyCall(name)

\* g[name] = e, for a view e
SetItemViewCall(name, e) ==
    /\ IsView(heap, g, e)
    /\ refined(g).err = "ok" => Room(heap, CopySize(heap, EvalView(heap, g, e).view.ref))
    /\ LET r == setitem_view(heap, g, name, EvalView(heap, g, e).view, engine)
       IN Becomes(r.grid, h, r.heap, raw) /\ err' = r.err
    /\ op' = "setitem_view"
    /\ UNCHANGED <<file, engine>>
SetItemView == \E name \in Names, e \in ViewExprs : SetItemViewCall(name, e)

\* g.reset_quantities()
ResetQuantities ==
    /\ Becomes(reset_quantities(g), h, heap, raw)
    /\ op' = "reset_quantities"
    /\ err' = "ok"
    /\ UNCHANGED <<file, engine>>

\* g.read_quantities(group, quantities=selector) on a group of some file
ReadQuantitiesCall(group, selector) ==
    /\ Room(heap, GroupSize(group, selector))
    /\ LET r == read_quantities(heap, g, group, selector)
       IN Becomes(r.grid, h, r.heap, raw) /\ err' = r.err
    /\ op' = "read_quantities"
    /\ UNCHANGED <<file, engine>>
ReadQuantities == \E group \in Groups : ReadQuantitiesCall(group, Names)

\* g[name] and g[name][i]
GetItemCall(e) ==
    /\ Defined(heap, g, e)
    /\ err' = EvalView(heap, g, e).err
    /\ op' = "getitem"
    /\ UNCHANGED <<g, h, heap, raw, file, engine>>
GetItem == \E n \in Names, i \in 0..MaxPop : GetItemCall(Expr("grid", n, 0)) \/ GetItemCall(Expr("item", n, i))

\* e[name], for a view e
ViewNameCall(e, name) ==
    /\ IsView(heap, g, e)
    /\ err' = ViewGetItemName(EvalView(heap, g, e).view, name).err
    /\ op' = "view_getitem_name"
    /\ UNCHANGED <<g, h, heap, raw, file, engine>>
ViewName == \E e \in ViewExprs, name \in Names : ViewNameCall(e, name)

\* s.append(e), for a view s
AppendCall(s, e) ==
    /\ IsView(heap, g, s)
    /\ Eval(heap, g, raw, e).ok
    /\ Room(heap, 1)
    /\ heap[EvalView(heap, g, s).view.ref].kind = "list"
         => Len(heap[EvalView(heap, g, s).view.ref].items) < MaxPop
    /\ LET r == append(heap, EvalView(heap, g, s).view, Eval(heap, g, raw, e).arg)
       IN Becomes(g, h, r.heap, raw) /\ err' = r.err
    /\ op' = "append"
    /\ UNCHANGED <<file, engine>>
AppendView == \E s \in ViewExprs, e \in Exprs : AppendCall(s, e)

\* s.add(e), for a view s
AddCall(s, e) ==
    /\ IsView(heap, g, s)
    /\ Eval(heap, g, raw, e).ok
    /\ LET r == add(heap, EvalView(heap, g, s).view, Eval(heap, g, raw, e).arg)
       IN /\ \A o \in Ids : \A i \in DOMAIN r.heap[o].data : r.heap[o].data[i] <= MaxVal
          /\ Becomes(g, h, r.heap, raw)
          /\ err' = r.err
    /\ op' = "add"
    /\ UNCHANGED <<file, engine>>
AddView == \E s \in ViewExprs, e \in Exprs : AddCall(s, e)

\* The caller makes a new array A
NewRawCall(d) ==
    /\ Room(heap, 1)
    /\ Becomes(g, h, [heap EXCEPT ![NthFree(heap, 1)] = Arr(d)], NthFree(heap, 1))
    /\ op' = "new_raw"
    /\ err' = "ok"
    /\ UNCHANGED <<file, engine>>
NewRaw == \E d \in RawData : NewRawCall(d)

\* The caller writes an element of A
MutateRawCall(i, val) ==
    /\ raw # 0
    /\ i \in DOMAIN heap[raw].data
    /\ heap[raw].data[i] # val
    /\ heap' = [heap EXCEPT ![raw] = Arr([heap[raw].data EXCEPT ![i] = val])]
    /\ op' = "mutate_raw"
    /\ err' = "ok"
    /\ UNCHANGED <<g, h, raw, file, engine>>
MutateRaw == \E i \in 1..MaxLen, val \in 1..MaxVal : MutateRawCall(i, val)

\* Building quantities up: the store and append.
Next ==
    \/ SetPoints \/ SetItemEmpty \/ SetItemView \/ ResetQuantities \/ ReadQuantities
    \/ AppendView \/ NewRaw \/ MutateRaw

Spec == Init /\ [][Next]_vars

\* The caller's own array as an argument.
RawExpr == Expr("raw", "", 0)

\* The elements of the array a view expression views, as the grid stores
\* them: g.quantities[name], or g.quantities[name][idx].
ViewedData(hp, grid, e) ==
    IF e.kind = "grid" THEN hp[grid.quantities[e.name]].data
    ELSE hp[hp[grid.quantities[e.name]].items[e.idx + 1]].data

\* The names whose quantity is a population list, and the population
\* invariant: all population lists of the store have one length.
PopLists(hp, quantities) ==
    {n \in Names : quantities[n] # 0 /\ hp[quantities[n]].kind = "list"}
PopInv ==
    \A m, n \in PopLists(heap, g.quantities) :
        Len(heap[g.quantities[m]].items) = Len(heap[g.quantities[n]].items)

\* C2: g[n].append(A), for a population list g[n] of k entries and a caller's
\* array A as long as the grid has points, succeeds; the list then has k+1
\* entries, the first k as before and the last with A's elements, and the
\* last is an object of its own, not A.  No later write to an element of A
\* changes any stored value.
C2_AppendDeepCopy ==
    [][ /\ op' = "append" => \A n \in Names :
             ( /\ AppendCall(Expr("grid", n, 0), RawExpr)
               /\ heap[g.quantities[n]].kind = "list"
               /\ <<Len(heap[raw].data)>> = g.shape )
             => /\ err' = "ok"
                /\ Val(heap', g'.quantities[n]).items
                     = Append(Val(heap, g.quantities[n]).items, heap[raw].data)
                /\ heap'[g'.quantities[n]].items[Len(heap[g.quantities[n]].items) + 1] # raw'
        /\ op' = "mutate_raw"
             => StoreVals(heap', g'.quantities) = StoreVals(heap, g.quantities)
      ]_vars

\* C2 witness: an append of A has just succeeded: the last entry of a
\* population list has A's elements and is another object than A.
C2_Appended ==
    /\ op = "append" /\ err = "ok" /\ raw # 0
    /\ \E n \in PopLists(heap, g.quantities) :
         LET items == heap[g.quantities[n]].items
         IN /\ items # <<>>
            /\ heap[items[Len(items)]].data = heap[raw].data
            /\ items[Len(items)] # raw

\* C6: g[name] = e, for a view e, succeeds; g.quantities[name] then has the
\* value e viewed and shares no object with it, the geometry of a grid that
\* had one is unchanged, and so are the other entries of the store.
C6_SetItemView ==
    [][ op' = "setitem_view" => \A name \in Names, e \in ViewExprs :
          SetItemViewCall(name, e)
          => LET ref == EvalView(heap, g, e).view.ref
             IN /\ err' = "ok"
                /\ g'.quantities[name] # 0
                /\ Val(heap', g'.quantities[name]) = Val(heap, ref)
                /\ g'.table = g.table /\ g'.shape = g.shape /\ g'.bbox = g.bbox
                /\ \A n \in Names \ {name} :
                     /\ (g'.quantities[n] = 0) = (g.quantities[n] = 0)
                     /\ g.quantities[n] # 0
                          => Val(heap', g'.quantities[n]) = Val(heap, g.quantities[n])
      ]_vars

\* C8: no successful call takes a store whose population lists have one
\* length to a store where two of them differ; the empty grid's store has no
\* list, so this is the population invariant over every sequence of
\* successful calls.
C8_PopInvKept == [][ (PopInv /\ err' = "ok") => PopInv' ]_vars

\* C8, as amended: after every successful read_quantities, which runs the
\* consistency check over the whole store, all population lists of the store
\* have the same number of entries.
C8_PopInvChecked == (op = "read_quantities" /\ err = "ok") => PopInv

\* C8 witness: read_quantities has succeeded on a store with two population
\* lists, which have the same number of entries.
C8_TwoListsRead ==
    /\ op = "read_quantities" /\ err = "ok"
    /\ PopLists(heap, g.quantities) = Names
    /\ \A n \in Names : Len(heap[g.quantities[n]].items) >= 1

\* Accumulating into quantities: add.
NextAdd ==
    \/ SetPoints \/ ReadQuantities \/ NewRaw \/ AddView

SpecAdd == Init /\ [][NextAdd]_vars

\* The object an argument expression passes, and its elements.
ArgRef(hp, grid, rawid, e) == Eval(hp, grid, rawid, e).arg.ref
ArgData(hp, grid, rawid, e) ==
    IF e.kind = "raw" THEN hp[rawid].data ELSE ViewedData(hp, grid, e)

\* s.add(e) where s views a single array and e is a single array (the
\* caller's, or a view's) as long as that array and as the grid has points.
AddsArrays(s, e) ==
    /\ heap[EvalView(heap, g, s).view.ref].kind = "array"
    /\ heap[ArgRef(heap, g, raw, e)].kind = "array"
    /\ <<Len(ArgData(heap, g, raw, e))>> = g.shape
    /\ Len(ViewedData(heap, g, s)) = Len(ArgData(heap, g, raw, e))

\* The sum add leaves in the array the grid stores.
AddsInPlace(s, e) ==
    /\ err' = "ok"
    /\ ViewedData(heap', g', s)
         = [i \in DOMAIN ViewedData(heap, g, s) |->
              ViewedData(heap, g, s)[i] + ArgData(heap, g, raw, e)[i]]

\* add on a view of a population list fails and changes nothing.
AddOnListFails(s) ==
    heap[EvalView(heap, g, s).view.ref].kind = "list"
    => /\ err' # "ok"
       /\ StoreVals(heap', g'.quantities) = StoreVals(heap, g.quantities)

\* C3: s.add(e) fails on a view of a population list and leaves the quantity
\* as it was; on a view of a single array (g[q] or g[q][i]) with a single
\* array e of matching length, the array the grid stores holds the
\* elementwise sum afterwards, and e's array is unchanged.
C3_AddLeavesOther ==
    [][ op' = "add" => \A s \in ViewExprs, e \in Exprs :
          AddCall(s, e)
          => /\ AddOnListFails(s)
             /\ AddsArrays(s, e)
                  => /\ AddsInPlace(s, e)
                     /\ ArgData(heap', g', raw', e) = ArgData(heap, g, raw, e)
      ]_vars

\* C3, as amended: the same, except that e's array is unchanged only when it
\* is another object than the array s views; s.add(s) leaves the doubled
\* elements in the one array both are.
C3_Add ==
    [][ op' = "add" => \A s \in ViewExprs, e \in Exprs :
          AddCall(s, e)
          => /\ AddOnListFails(s)
             /\ AddsArrays(s, e)
                  => /\ AddsInPlace(s, e)
                     /\ ArgRef(heap, g, raw, e) # EvalView(heap, g, s).view.ref
                          => ArgData(heap', g', raw', e) = ArgData(heap, g, raw, e)
                     /\ ArgRef(heap, g, raw, e) = EvalView(heap, g, s).view.ref
                          => ArgData(heap', g', raw', e) = ViewedData(heap', g', s)
      ]_vars

\* C3 witness: an add has just succeeded and a stored array holds a sum (the
\* arrays read and the caller's arrays hold ones).
C3_Added ==
    /\ op = "add" /\ err = "ok"
    /\ \E o \in Ids : heap[o].kind = "array" /\ \E i \in DOMAIN heap[o].data : heap[o].data[i] = 2

\* Looking quantities up: views by name and by index.
NextIndex ==
    \/ SetPoints \/ SetItemEmpty \/ ResetQuantities \/ ReadQuantities
    \/ GetItem \/ ViewName

SpecIndex == Init /\ [][NextIndex]_vars

\* C7: for a grid holding p and q, g[p][q] succeeds and is the view of q:
\* the grid's coordinates, q as viewed quantity, g.quantities[q] as array.
C7_ViewName ==
    [][ op' = "view_getitem_name" => \A p, q \in Names :
          ( /\ p # q
            /\ ViewNameCall(Expr("grid", p, 0), q)
            /\ g.quantities[q] # 0 )
          => LET r == ViewGetItemName(GridGetItem(g, p).view, q)
             IN /\ err' = "ok"
                /\ r.view.viewed_quantity = q
                /\ r.view.coordinates = g.table.coordinates
                /\ r.view.ref = g.quantities[q]
      ]_vars

\* ------------------------------------------------- actions on containers
\* Containers other software wrote: cells with one column per coordinate, a
\* grid type that may be another grid's, a hash that may be another
\* geometry's.
GeometryIds == {get_geometry_id(voronoi_grid(pts, "")) : pts \in PointSets}
ExternalGroups ==
    {[n \in Names |-> NoneVal], [n \in Names |-> IF n = "p" THEN Dataset1(Ones(1)) ELSE NoneVal]}
ExternalFiles ==
    {[grid_type |-> t, geometry |-> id, bbox |-> set_points(EmptyGrid, pts, "int32").bbox,
      cells |-> [exists |-> TRUE, columns |-> {"x", "y", "z", "neighbours"},
                 coordinates |-> pts, neighbours |-> "int32"],
      quantities |-> grp, tags |-> [n \in Names |-> IF grp[n].kind = "none" THEN <<>> ELSE id]] :
        t \in {"vor", "oct"}, id \in GeometryIds, pts \in PointSets, grp \in ExternalGroups}

\* What a caller may hand to the dimension check: an array, or a list of
\* arrays of one length.
Candidates ==
    {[kind |-> "array", data |-> Ones(n), items |-> <<>>] : n \in 1..MaxLen}
    \cup {[kind |-> "list", data |-> <<>>, items |-> [j \in 1..k |-> Ones(n)]] :
             n \in 1..MaxLen, k \in 0..MaxPop}

\* The caller opens a new, empty container
NewFile ==
    /\ file # NoFile
    /\ file' = NoFile
    /\ op' = "new_file"
    /\ err' = "ok"
    /\ UNCHANGED <<g, h, heap, raw, engine>>

\* The caller opens a container some other software wrote
ExternalFileCall(f) ==
    /\ file' = f
    /\ op' = "external_file"
    /\ err' = "ok"
    /\ UNCHANGED <<g, h, heap, raw, engine>>
ExternalFile == \E f \in ExternalFiles : ExternalFileCall(f)

\* h = VoronoiGrid()
NewGrid ==
    /\ h # EmptyGrid
    /\ Becomes(g, EmptyGrid, heap, raw)
    /\ op' = "new_grid"
    /\ err' = "ok"
    /\ UNCHANGED <<file, engine>>

\* g.write(file, quantities=selector)
WriteCall(selector) ==
    /\ LET r == write(heap, g, file, selector)
       IN file' = r.file /\ err' = r.err
    /\ op' = "write"
    /\ UNCHANGED <<g, h, heap, raw, engine>>
Write == \E selector \in Selectors : WriteCall(selector)

\* g.write_single_array(file['Quantities'], name, array), on a new container
WriteSingleArrayCall(name, array) ==
    /\ file = NoFile
    /\ LET r == write_single_array(heap, g, file, name, array)
       IN file' = r.file /\ err' = r.err
    /\ op' = "write_single_array"
    /\ UNCHANGED <<g, h, heap, raw, engine>>
WriteSingleArray == \E name \in Names, array \in Candidates : WriteSingleArrayCall(name, array)

\* g._check_array_dimensions(array) on a caller's array or list
CheckCall(array) ==
    /\ err' = check_array_dimensions(g.shape, StoreVals(heap, g.quantities), array)
    /\ op' = "check"
    /\ UNCHANGED <<g, h, heap, raw, file, engine>>
Check == \E array \in Candidates \cup {NoneVal} : CheckCall(array)

\* g._check_array_dimensions(e) on a view e, replaced by its viewed value
CheckViewCall(e) ==
    /\ IsView(heap, g, e)
    /\ err' = check_array_dimensions(g.shape, StoreVals(heap, g.quantities),
                                     Val(heap, EvalView(heap, g, e).view.ref))
    /\ op' = "check_view"
    /\ UNCHANGED <<g, h, heap, raw, file, engine>>
CheckView == \E e \in ViewExprs : CheckViewCall(e)

\* h.read_geometry(file['Geometry'])
ReadGeometry ==
    /\ LET r == read_geometry(h, file, engine)
       IN h' = r.grid /\ err' = r.err
    /\ op' = "read_geometry"
    /\ UNCHANGED <<g, heap, raw, file, engine>>

\* h.read(file, quantities=selector)
ReadCall(selector) ==
    /\ read_geometry(h, file, engine).err = "ok" => Room(heap, GroupSize(file.quantities, selector))
    /\ LET r == read(heap, h, file, selector, engine)
       IN Becomes(g, r.grid, r.heap, raw) /\ err' = r.err
    /\ op' = "read"
    /\ UNCHANGED <<file, engine>>
Read == \E selector \in Selectors : ReadCall(selector)

\* The tessellation engine of this build stores neighbours in one integer type.
InitIO ==
    /\ g = EmptyGrid
    /\ h = EmptyGrid
    /\ heap = [i \in Ids |-> Free]
    /\ raw = 0
    /\ file = NoFile
    /\ engine \in NeighbourTypes
    /\ op = "init"
    /\ err = "ok"

\* Groups a grid is filled from before it is written: one array, one list.
IOGroups ==
    {[n \in Names |-> IF n = "p" THEN Dataset1(Ones(k)) ELSE Dataset2([j \in 1..MaxPop |-> Ones(k)])] :
        k \in 1..MaxLen}
ReadQuantitiesIO == \E group \in IOGroups : ReadQuantitiesCall(group, Names)

\* Writing a grid to a container and reading one back.
NextIO ==
    \/ SetPoints \/ ReadQuantitiesIO
    \/ NewFile \/ ExternalFile \/ NewGrid
    \/ Write \/ ReadGeometry \/ Read

SpecIO == InitIO /\ [][NextIO]_vars

\* Two grids with the same points, bounding box, quantity names, values and
\* population structure.
SameGrid(hp, a, b) ==
    /\ a.table.coordinates = b.table.coordinates
    /\ a.bbox = b.bbox
    /\ \A n \in Names :
         /\ (a.quantities[n] = 0) = (b.quantities[n] = 0)
         /\ a.quantities[n] # 0 => Val(hp, a.quantities[n]) = Val(hp, b.quantities[n])

\* The container holds what g.write leaves in a new container, g being a
\* grid with geometry whose store passes the consistency check.
WrittenByG ==
    /\ ~g.table.isNone
    /\ check_array_dimensions(g.shape, StoreVals(heap, g.quantities), NoneVal) = "ok"
    /\ write(heap, g, NoFile, Names).err = "ok"
    /\ file = write(heap, g, NoFile, Names).file

\* C1: reading the container a consistent grid with geometry wrote into a
\* fresh grid completes without error and leaves the fresh grid with the
\* writer's points, bounding box, quantity names, values and population
\* structure.
C1_RoundTrip ==
    [][ (op' = "read" /\ ReadCall(Names) /\ h = EmptyGrid /\ WrittenByG)
        => (err' = "ok" /\ SameGrid(heap', g', h')) ]_vars

\* C9: a write by a grid whose neighbour column is not int32 raises the
\* type error and leaves the container exactly as it was.
C9_WriteFailsFirst ==
    [][ (op' = "write" /\ ~g.table.isNone /\ g.table.neighbours # "int32")
        => (err' = "TypeError" /\ file' = file) ]_vars

\* The container declares the Voronoi grid type and its fingerprint is the
\* one of the coordinates its cells hold.
TagAndFingerprintMatch ==
    /\ file.grid_type = "vor"
    /\ file.cells.exists
    /\ file.geometry = get_geometry_id(voronoi_grid(file.cells.coordinates, ""))

\* C10: read_geometry returns normally exactly when the tag is the Voronoi
\* tag and the stored fingerprint is that of the stored coordinates; another
\* tag raises before the grid's geometry is touched; another fingerprint
\* raises the fingerprint exception.
C10_ReadGeometry ==
    [][ op' = "read_geometry"
        => /\ (err' = "ok") = TagAndFingerprintMatch
           /\ file.grid_type \notin {"", "vor"} => (err' = "ValueError" /\ h' = h)
           /\ ( /\ file.grid_type = "vor" /\ file.cells.exists /\ file.geometry # <<>>
                /\ ~TagAndFingerprintMatch ) => err' = "Exception"
      ]_vars

\* Checking a caller's array against the grid, alone or before writing it.
NextCheck ==
    \/ SetPoints \/ ReadQuantitiesIO \/ ResetQuantities
    \/ NewFile \/ WriteSingleArray \/ Check \/ CheckView

SpecCheck == Init /\ [][NextCheck]_vars

\* The length of the arrays of a candidate (of a list, of its arrays).
CandidateShape(array) ==
    IF array.kind = "list" THEN <<Len(array.items[1])>> ELSE <<Len(array.data)>>

\* C4: on a grid with geometry, whatever its store holds, the check of a
\* candidate whose arrays are not as long as the grid has points raises the
\* shape error, and so does write_single_array, which then writes nothing.
C4_ShapeOfCandidate ==
    [][ op' \in {"check", "write_single_array"} =>
        \A array \in {c \in Candidates : c.kind = "array" \/ c.items # <<>>} :
          ( /\ CheckCall(array) \/ \E name \in Names : WriteSingleArrayCall(name, array)
            /\ ~g.table.isNone
            /\ CandidateShape(array) # g.shape )
          => (err' = "ValueError" /\ file' = file)
      ]_vars

\* The numbers of entries of the population lists the store holds.
StoredCounts == {Len(heap[g.quantities[n]].items) : n \in PopLists(heap, g.quantities)}

\* The grid has geometry and its store passes the consistency check.
Consistent ==
    /\ ~g.table.isNone
    /\ check_array_dimensions(g.shape, StoreVals(heap, g.quantities), NoneVal) = "ok"

\* C5: on a consistent grid, the check of a candidate that is a population
\* list of m arrays raises when the store holds a population list of another
\* number of arrays.
C5_PopulationOfCandidate ==
    [][ op' = "check" =>
        \A array \in {c \in Candidates : c.kind = "list"} :
          (CheckCall(array) /\ Consistent /\ StoredCounts \ {Len(array.items)} # {})
          => err' = "ValueError"
      ]_vars

====
